---- MODULE Spec2Model ----
(***************************************************************************)
(* Model of the DayZ server wrapper: the container entrypoint              *)
(* (src/src/entrypoint.ts) and the dayz-manager CLI (src/unnamed/part_000) *)
(* with the installer (entrypoint.ts:594-855), the mod manager             *)
(* (src/unnamed/part_001) and the configuration schema                     *)
(* (src/src/config/schema.ts).                                             *)
(*                                                                         *)
(* One behaviour of Spec is one run of one command of one of the two       *)
(* programs. An action is one uninterrupted piece of the Node.js run: a    *)
(* callback together with the synchronous code and promise continuations   *)
(* that follow it, up to the next point where the program waits for an     *)
(* external event (a subprocess closing, a signal, a timer).               *)
(***************************************************************************)
EXTENDS Integers, Sequences, FiniteSets, TLC

(***************************************************************************)
(* Optional values: a key that a YAML document may omit, an exit code that *)
(* may be null. <<>> is "absent"/null, <<v>> is the value v.               *)
(***************************************************************************)
None == <<>>

Some(v) == <<v>>

(* ------------------------------------------------------------------ *)
(* Bounds of the model                                                 *)
(* ------------------------------------------------------------------ *)

\* longest mod list of a configuration document
MaxMods == 3

\* most termination signals delivered to the supervisor in one run
MaxSignals == 2

\* longest credential string given to shellEscape
MaxLen == 3

\* most lines of the main server configuration file before a command runs
MaxLines == 2

\* most steps of the clock before a grace timer is armed
MaxTicks == 2

\* the delay of the grace timer, in milliseconds (entrypoint.ts:511)
GracePeriod == 10000

\* the step of the clock: half of the grace period
ClockStep == GracePeriod \div 2

(* ------------------------------------------------------------------ *)
(* Configuration schema (src/src/config/schema.ts)                     *)
(* ------------------------------------------------------------------ *)

\* DEFAULT_CONFIG.server: the four fields validateConfig reads
DEFAULT_CONFIG ==
  [ name          |-> "DayZ Server",
    adminPassword |-> "changeme",
    maxPlayers    |-> 60,
    port          |-> 2302,
    mods          |-> <<>> ]

\* the names of the three credentials (SteamCredentials, schema.ts:8-12)
CredentialFields == {"username", "password", "steamGuardCode"}

\* a steam block in which no key is present: what { ...undefined } is
EmptySteam == [username |-> None, password |-> None, steamGuardCode |-> None]

\* the steam block a configuration file of the model may carry
FileSteam ==
  [ username |-> Some("fileuser"), password |-> Some("filepass"),
    steamGuardCode |-> Some("FILE1") ]

\* every steam block of a document: each key present or not
SteamBlocks ==
  [ username : {None, FileSteam.username}, password : {None, FileSteam.password},
    steamGuardCode : {None, FileSteam.steamGuardCode} ]

SteamValues == {None} \cup {Some(b) : b \in SteamBlocks}

\* the i-th entry of a document's mod list: the two mods of the sample
\* configuration, then further mods
ModEntry(i) ==
  [ workshopId |-> IF i = 1 THEN "1559212036"
                   ELSE IF i = 2 THEN "1708571776" ELSE "200000000" \o ToString(i),
    name       |-> IF i = 1 THEN "@CF"
                   ELSE IF i = 2 THEN "@VPPAdminTools" ELSE "@Mod" \o ToString(i),
    serverSide |-> FALSE ]

ModList(n) == [i \in 1..n |-> ModEntry(i)]

\* modConfigs.vppAdminTools of the sample configuration
\* (entrypoint.ts:154-160, part_000:78-84); VPPAdminToolsConfig, schema.ts:71-82
SampleVppAdminTools ==
  [ superAdmins |-> Some(<<"76561198000000000">>), password |-> Some("adminpassword"),
    disablePassword |-> Some(FALSE) ]

\* the vppAdminTools blocks of a document: the list of super admins absent,
\* empty, or of one or two identifiers; the password absent, empty or set;
\* disablePassword absent, false or true
VppAdminToolsBlocks ==
  [ superAdmins : {None, Some(<<>>), Some(<<"76561198000000000">>),
                   Some(<<"76561198000000000", "76561198000000001">>)},
    password : {None, Some(""), Some("adminpassword")},
    disablePassword : {None, Some(FALSE), Some(TRUE)} ]

\* createDefaultConfig: the document init and the entrypoint's install write
createDefaultConfig ==
  [ name          |-> Some("My DayZ Server"),
    adminPassword |-> Some("changeme123"),
    maxPlayers    |-> Some(DEFAULT_CONFIG.maxPlayers),
    port          |-> Some(DEFAULT_CONFIG.port),
    mods          |-> Some(ModList(2)),
    steam         |-> None,
    vppAdminTools |-> Some(SampleVppAdminTools) ]

\* values a document may give to a field
NameValues == {None, Some(""), Some("My Server")}

AdminPasswordValues == {None, Some(""), Some("secret")}

PortValues == {None, Some(0), Some(1), Some(2302), Some(65535), Some(65536)}

MaxPlayersValues == {None, Some(0), Some(1), Some(60), Some(127), Some(128)}

ModsValues == {None} \cup {Some(ModList(n)) : n \in 0..MaxMods}

\* every parsed YAML document of the model
Documents ==
  [ name : NameValues, adminPassword : AdminPasswordValues,
    maxPlayers : MaxPlayersValues, port : PortValues, mods : ModsValues,
    steam : {None, Some(FileSteam)}, vppAdminTools : {None} ]

\* a mutant of Spread: the default wins over the document
Spread_defaultWins(doc, key) == DEFAULT_CONFIG[key]

\* { ...DEFAULT, ...doc } for one key: the document's value when the key is
\* present (whatever the value), the default otherwise
Spread(doc, key) == IF doc[key] = None THEN DEFAULT_CONFIG[key] ELSE doc[key][1]

\* the merge both loadConfig functions perform on a parsed document; the
\* modConfigs key is taken from the document as it is;
\* DEFAULT_CONFIG has no steam key, so { ...DEFAULT_CONFIG, ...config }
\* carries the document's steam block when it has one and none otherwise
MergeWithDefaults(doc) ==
  [ name          |-> Spread(doc, "name"),
    adminPassword |-> Spread(doc, "adminPassword"),
    maxPlayers    |-> Spread(doc, "maxPlayers"),
    port          |-> Spread(doc, "port"),
    mods          |-> Spread(doc, "mods"),
    steam         |-> doc.steam,
    vppAdminTools |-> doc.vppAdminTools ]

\* { ...DEFAULT_CONFIG.steam, ...config.steam } (entrypoint.ts:82):
\* DEFAULT_CONFIG.steam is undefined, so the result is the document's block,
\* or a block without keys when the document has none
SpreadSteam(steam) == IF steam = None THEN EmptySteam ELSE steam[1]

Violation(rule, subject) == [rule |-> rule, subject |-> subject]

RECURSIVE ModViolations(_)
ModViolations(mods) ==
  IF mods = <<>> THEN <<>>
  ELSE LET mod == Head(mods) IN
       (IF mod.workshopId = "" THEN <<Violation("missing workshopId", mod.name)>> ELSE <<>>)
       \o (IF mod.name = "" THEN <<Violation("missing name", mod.workshopId)>> ELSE <<>>)
       \o ModViolations(Tail(mods))

\* a mutant of validateConfig: it returns at the first violation
validateConfig_shortCircuit(config) ==
  IF config.name = "" THEN <<Violation("Server name is required", "")>>
  ELSE IF config.adminPassword = "" THEN <<Violation("Admin password is required", "")>>
  ELSE IF config.port < 1 \/ config.port > 65535
    THEN <<Violation("Server port must be between 1 and 65535", "")>>
  ELSE IF config.maxPlayers < 1 \/ config.maxPlayers > 127
    THEN <<Violation("Max players must be between 1 and 127", "")>>
  ELSE IF ModViolations(config.mods) = <<>> THEN <<>>
  ELSE <<Head(ModViolations(config.mods))>>

\* a mutant of validateConfig: the admin password rule is not checked
validateConfig_noAdminPassword(config) ==
  (IF config.name = "" THEN <<Violation("Server name is required", "")>> ELSE <<>>)
  \o (IF config.port < 1 \/ config.port > 65535
        THEN <<Violation("Server port must be between 1 and 65535", "")>> ELSE <<>>)
  \o (IF config.maxPlayers < 1 \/ config.maxPlayers > 127
        THEN <<Violation("Max players must be between 1 and 127", "")>> ELSE <<>>)
  \o ModViolations(config.mods)

validateConfig(config) ==
  (IF config.name = "" THEN <<Violation("Server name is required", "")>> ELSE <<>>)
  \o (IF config.adminPassword = ""
        THEN <<Violation("Admin password is required", "")>> ELSE <<>>)
  \o (IF config.port < 1 \/ config.port > 65535
        THEN <<Violation("Server port must be between 1 and 65535", "")>> ELSE <<>>)
  \o (IF config.maxPlayers < 1 \/ config.maxPlayers > 127
        THEN <<Violation("Max players must be between 1 and 127", "")>> ELSE <<>>)
  \o ModViolations(config.mods)

(* ------------------------------------------------------------------ *)
(* Credentials: environment and configuration                          *)
(* ------------------------------------------------------------------ *)

\* JavaScript truthiness of an optional string: present and not empty
Truthy(opt) == opt # None /\ opt[1] # ""

\* the environment without credential variables
NoEnv == [username |-> None, password |-> None, steamGuardCode |-> None]

\* the environment with STEAM_USERNAME, STEAM_PASSWORD, STEAM_GUARD_CODE set
FullEnv ==
  [ username |-> Some("envuser"), password |-> Some("envpass"),
    steamGuardCode |-> Some("ENV22") ]

\* every environment over those values: each variable unset, set to the
\* empty string, or set
Environments ==
  [ username : {None, Some(""), FullEnv.username},
    password : {None, Some(""), FullEnv.password},
    steamGuardCode : {None, Some(""), FullEnv.steamGuardCode} ]

\* a mutant of mergeEnvIntoConfig: a value of the file is kept
mergeEnvIntoConfig_fileWins(config, environment) ==
  LET steam == SpreadSteam(config.steam)
      updated(f) == IF Truthy(steam[f]) \/ ~Truthy(environment[f])
                      THEN steam[f] ELSE environment[f]
  IN [ config EXCEPT !.steam =
         Some([ username |-> updated("username"), password |-> updated("password"),
                steamGuardCode |-> updated("steamGuardCode") ]) ]

\* mergeEnvIntoConfig (entrypoint.ts:104-120): a copy of the
\* configuration whose steam block has each credential replaced by the
\* environment's when that variable is set and not empty
mergeEnvIntoConfig(config, environment) ==
  LET steam == SpreadSteam(config.steam)
      updated(f) == IF Truthy(environment[f]) THEN environment[f] ELSE steam[f]
  IN [ config EXCEPT !.steam =
         Some([ username |-> updated("username"), password |-> updated("password"),
                steamGuardCode |-> updated("steamGuardCode") ]) ]

\* getSteamCredentials (schema.ts:17-23): process.env.X || ''
getSteamCredentials(environment) ==
  LET orEmpty(f) == IF Truthy(environment[f]) THEN environment[f] ELSE Some("")
  IN [ username |-> orEmpty("username"), password |-> orEmpty("password"),
       steamGuardCode |-> orEmpty("steamGuardCode") ]

(* ------------------------------------------------------------------ *)
(* The login directive (entrypoint.ts:659-688)                         *)
(* ------------------------------------------------------------------ *)

\* the backquote character: a string literal can hold it only when a
\* quote follows, so it is cut out of such a literal
Backquote == SubSeq("`'", 1, 1)

\* the characters credential strings are made of
Chars == {"a", "'", Backquote, "$", "(", ")", " ", "\\"}

\* the strings of at most n characters
RECURSIVE Strings(_)
Strings(n) ==
  IF n = 0 THEN {""}
  ELSE LET shorter == Strings(n - 1)
       IN shorter \cup {str \o c : str \in shorter, c \in Chars}

CharAt(str, i) == SubSeq(str, i, i)

\* str.replace of every single quote by quote, backslash, quote, quote
RECURSIVE ReplaceQuotes(_)
ReplaceQuotes(str) ==
  IF str = "" THEN ""
  ELSE (IF CharAt(str, 1) = "'" THEN "'\\''" ELSE CharAt(str, 1))
       \o ReplaceQuotes(SubSeq(str, 2, Len(str)))

\* a mutant of shellEscape: the string is wrapped and nothing is replaced
shellEscape_wrapOnly(str) == "'" \o str \o "'"

\* shellEscape (entrypoint.ts:659-662)
shellEscape(str) == "'" \o ReplaceQuotes(str) \o "'"

\* buildLoginCommand (entrypoint.ts:667-688)
buildLoginCommand(credentials) ==
  IF ~Truthy(credentials.username) THEN "+login anonymous"
  ELSE "+login " \o shellEscape(credentials.username[1])
       \o (IF Truthy(credentials.password)
             THEN " " \o shellEscape(credentials.password[1]) ELSE "")
       \o (IF Truthy(credentials.steamGuardCode)
             THEN " " \o shellEscape(credentials.steamGuardCode[1]) ELSE "")

(* ------------------------------------------------------------------ *)
(* The mod arguments of the server (entrypoint.ts:843-854)             *)
(* ------------------------------------------------------------------ *)

\* the mod names of the model: two of the sample configuration, the empty
\* name and a name with the separator in it
ModNames == {"@CF", "@VPPAdminTools", "", "@a;b"}

\* the entries a mod list is made of
ModEntries == [workshopId : {"1559212036"}, name : ModNames, serverSide : BOOLEAN]

\* the mod lists of at most n entries
ModLists(n) == UNION {[1..k -> ModEntries] : k \in 0..n}

\* Array.prototype.join(';')
RECURSIVE Join(_)
Join(names) ==
  IF names = <<>> THEN ""
  ELSE IF Len(names) = 1 THEN names[1]
  ELSE names[1] \o ";" \o Join(Tail(names))

\* mods.filter(m => m.serverSide is flag).map(m => m.name)
NamesWhere(mods, flag) ==
  LET kept == SelectSeq(mods, LAMBDA m : m.serverSide = flag)
  IN [i \in 1..Len(kept) |-> kept[i].name]

\* a mutant of buildModString: every mod is listed, server-side or not
buildModString_all(mods) == Join([i \in 1..Len(mods) |-> mods[i].name])

\* buildModString (entrypoint.ts:843-846)
buildModString(mods) == Join(NamesWhere(mods, FALSE))

\* buildServerModString (entrypoint.ts:851-854)
buildServerModString(mods) == Join(NamesWhere(mods, TRUE))

\* ModManager.getModStartupParams (part_001:101-106)
getModStartupParams(mods) ==
  [mods |-> buildModString(mods), serverMods |-> buildServerModString(mods)]

(* ------------------------------------------------------------------ *)
(* Installer results (entrypoint.ts:594-855, SteamCMDInstaller)        *)
(* ------------------------------------------------------------------ *)

\* exit codes a subprocess reports to its 'close' handler; None is null
\* (the subprocess was ended by a signal)
ExitCodes == {None, Some(0), Some(1), Some(5)}

\* InstallResult { success, message, steamGuardRequired? }; an absent flag
\* reads as false. The message is its text and the exit code it embeds.
InstallResult(success, text, code, steamGuardRequired) ==
  [ success |-> success, message |-> [text |-> text, code |-> code],
    steamGuardRequired |-> steamGuardRequired ]

\* a mutant of the close handler of installServer: exit code 5 is not
\* told apart from the other failures
InstallServerResult_noGuard(code) ==
  IF code = Some(0)
    THEN InstallResult(TRUE, "DayZ Server installed/updated successfully", None, FALSE)
    ELSE InstallResult(FALSE, "Installation failed with exit code", code, FALSE)

\* the close handler of installServer: exit code -> result
InstallServerResult(code) ==
  IF code = Some(0)
    THEN InstallResult(TRUE, "DayZ Server installed/updated successfully", None, FALSE)
  ELSE IF code = Some(5)
    THEN InstallResult(FALSE, "Steam Guard code required. Please check your email and update config with the code.", None, TRUE)
  ELSE InstallResult(FALSE, "Installation failed with exit code", code, FALSE)

\* the close handler of installMod: exit code -> result
InstallModResult(code) ==
  IF code = Some(0)
    THEN InstallResult(TRUE, "Mod installed successfully", None, FALSE)
  ELSE IF code = Some(5)
    THEN InstallResult(FALSE, "Steam Guard code required.", None, TRUE)
  ELSE InstallResult(FALSE, "Mod installation failed with exit code", code, FALSE)

\* the result installServer and installMod return without starting a
\* subprocess when steamcmd.sh is missing
NotInstalledResult == InstallResult(FALSE, "SteamCMD is not installed.", None, FALSE)

\* the results of installSteamCMD (try / catch around the two execSync calls)
SteamCMDResult(ok) ==
  IF ok THEN InstallResult(TRUE, "SteamCMD installed successfully", None, FALSE)
        ELSE InstallResult(FALSE, "Failed to install SteamCMD", None, FALSE)

\* one entry of the log of calls of installServer and installMod: the
\* credentials handed over, the login directive built from them (None when
\* the call returned before building it) and the index of the mod (0 for the
\* server)
Invocation(fn, credentials, directive, mod) ==
  [fn |-> fn, credentials |-> credentials, directive |-> directive, mod |-> mod]

\* one entry of the log of results the installer returned
Returned(fn, spawned, code, result) ==
  [fn |-> fn, spawned |-> spawned, code |-> code, result |-> result]

(* ------------------------------------------------------------------ *)
(* State                                                               *)
(* ------------------------------------------------------------------ *)

VARIABLES
  prog,            \* "entrypoint" (entrypoint.ts) or "cli" (part_000)
  command,         \* the command given on the command line
  env,             \* the credential variables of the process environment
  routine,         \* the command function now running (cmdInstall inside start)
  pc,              \* where the run is
  alive,           \* the supervising process has not exited
  exitStatus,      \* its exit status once it has
  cfgFile,         \* the configuration file on disk
  config,          \* the configuration the running command loaded, or None
  errors,          \* the last list validateConfig returned
  fsSteamcmd,      \* steamcmd.sh exists
  fsServerBinary,  \* the server binary exists (isFirstRun is its negation)
  fsStartScript,   \* start-server.sh exists
  scriptFound,     \* what the start command's look for it found
  serverProcess,   \* entrypoint.ts:25, TRUE when not null
  child,           \* the server child: "none", "running", "closed"
  childCode,       \* the exit code its 'close' event carried
  childSignals,    \* the signals the supervisor sent to the child, in order
  timers,          \* grace timers armed and not fired
  deadlines,       \* the times the grace timers were armed for, in arming order
  now,             \* the time since the start of the run, in milliseconds
  timerFired,      \* a grace timer has fired
  pendingSignals,  \* signals delivered to the process, handler not yet run
  handled,         \* signals whose handler has run, in order
  steps,           \* the pipeline steps started, in order
  subproc,         \* the installer subprocess: "none", "running", "exited"
  results,         \* the results the installer returned, in order
  modIdx,          \* index of installAllMods' loop
  managerCreds,    \* the ModManager was constructed with credentials
  keysCopied,      \* indices of the mods copyModKeys ran for
  linked,          \* indices of the mods whose directory link was created
  modDest,         \* what is at each mod's location in the server directory
  files,           \* the files the admin-tools configurator writes
  logins,          \* the calls of installServer and installMod, in order
  modParams,       \* the mod arguments of the generated startup script, or None
  configured       \* the mod names configureMod was called with, in order

vars ==
  << prog, command, env, routine, pc, alive, exitStatus, cfgFile, config, errors,
     fsSteamcmd, fsServerBinary, fsStartScript, scriptFound, serverProcess, child, childCode,
     childSignals, timers, deadlines, now, timerFired, pendingSignals, handled, steps, subproc,
     results, modIdx, managerCreds, keysCopied, linked, modDest, files, logins, modParams, configured >>

runVars == <<prog, command, scriptFound, env>>

cfgVars == <<cfgFile, config, errors>>

fsVars == <<fsSteamcmd, fsServerBinary, fsStartScript>>

childVars == <<serverProcess, child, childCode, childSignals, timers, deadlines, now,
              timerFired>>

sigVars == <<pendingSignals, handled>>

modVars == <<modIdx, managerCreds, keysCopied, linked, modDest, files, modParams, configured>>

stepVars == <<steps, subproc, results, logins>>

(* ------------------------------------------------------------------ *)
(* The admin-tools configurator                                        *)
(* (src/src/mods/configurators/vpp-admin-tools.ts)                     *)
(* ------------------------------------------------------------------ *)

\* the three files the configurator writes, each absent (None) or with its
\* content: SuperAdmins.txt and credentials.txt under the profiles
\* directory, serverDZ.cfg in the server directory
Files(superAdmins, credentials, serverDZ) ==
  [superAdmins |-> superAdmins, credentials |-> credentials, serverDZ |-> serverDZ]

NoFiles == Files(None, None, None)

\* the text of the flag the configurator looks for
Flag == "vppDisablePassword"

\* `vppDisablePassword = ${config.disablePassword ? '1' : '0'};`
\* (vpp-admin-tools.ts:87, 91)
Assignment(modConfig) ==
  Flag \o " = " \o (IF modConfig.disablePassword = Some(TRUE) THEN "1" ELSE "0") \o ";"

\* the text appended when the file does not mention the flag
\* (vpp-admin-tools.ts:91)
Appended(modConfig) ==
  "\n// VPP Admin Tools - Disable password requirement\n" \o Assignment(modConfig) \o "\n"

\* String.prototype.includes
Includes(str, sub) ==
  \E i \in 1..(Len(str) - Len(sub) + 1) : SubSeq(str, i, i + Len(sub) - 1) = sub

\* the characters \s and \d match, of those the files of the model hold
Whitespace == {" ", "\t", "\n"}

Digits == {"0", "1", "2", "3", "4", "5", "6", "7", "8", "9"}

\* the first position from i on whose character is not in the class
RECURSIVE Skip(_, _, _)
Skip(str, i, class) ==
  IF i <= Len(str) /\ CharAt(str, i) \in class THEN Skip(str, i + 1, class) ELSE i

\* the position of the last character of the match of
\* /vppDisablePassword\s*=\s*\d+;/ that starts at position i, or 0 when
\* there is none (vpp-admin-tools.ts:86)
MatchEnd(str, i) ==
  IF i + Len(Flag) - 1 > Len(str) THEN 0
  ELSE IF SubSeq(str, i, i + Len(Flag) - 1) # Flag THEN 0
  ELSE LET eq == Skip(str, i + Len(Flag), Whitespace) IN
       IF eq > Len(str) THEN 0
       ELSE IF CharAt(str, eq) # "=" THEN 0
       ELSE LET first == Skip(str, eq + 1, Whitespace)
                semi  == Skip(str, first, Digits)
            IN IF semi = first \/ semi > Len(str) THEN 0
               ELSE IF CharAt(str, semi) # ";" THEN 0 ELSE semi

\* the position of the leftmost match from i on, or 0
RECURSIVE FirstMatch(_, _)
FirstMatch(str, i) ==
  IF i > Len(str) THEN 0
  ELSE IF MatchEnd(str, i) # 0 THEN i
  ELSE FirstMatch(str, i + 1)

\* content.replace(/vppDisablePassword\s*=\s*\d+;/, replacement): the
\* leftmost match is replaced; the text is unchanged when nothing matches
Replace(str, replacement) ==
  LET i == FirstMatch(str, 1) IN
  IF i = 0 THEN str
  ELSE SubSeq(str, 1, i - 1) \o replacement \o SubSeq(str, MatchEnd(str, i) + 1, Len(str))

\* a mutant of updateServerConfig: the assignment is appended whether the
\* file mentions the flag or not
updateServerConfig_alwaysAppend(modConfig, content) ==
  IF content = None THEN content
  ELSE IF content[1] = "" THEN content
  ELSE Some(content[1] \o Appended(modConfig))

\* updateServerConfig (vpp-admin-tools.ts:72-95) as a function of the
\* content of serverDZ.cfg: readFile gives null for no file, and
\* `!content` is also true of the empty text
updateServerConfig(modConfig, content) ==
  IF content = None THEN content
  ELSE IF content[1] = "" THEN content
  ELSE IF Includes(content[1], Flag)
    THEN Some(Replace(content[1], Assignment(modConfig)))
  ELSE Some(content[1] \o Appended(modConfig))

\* Array.prototype.join('\n')
RECURSIVE JoinLines(_)
JoinLines(lines) ==
  IF lines = <<>> THEN ""
  ELSE IF Len(lines) = 1 THEN lines[1]
  ELSE lines[1] \o "\n" \o JoinLines(Tail(lines))

\* configureSuperAdmins (vpp-admin-tools.ts:45-52): the content written
SuperAdminsContent(modConfig) ==
  JoinLines(IF modConfig.superAdmins = None THEN <<>> ELSE modConfig.superAdmins[1]) \o "\n"

\* configureCredentials (vpp-admin-tools.ts:54-70) as a function of the
\* content of credentials.txt
configureCredentials(modConfig, content) ==
  IF modConfig.disablePassword = Some(TRUE) THEN Some("")
  ELSE IF ~Truthy(modConfig.password) THEN content
  ELSE Some(modConfig.password[1] \o "\n")

\* VPPAdminToolsConfigurator.configure (vpp-admin-tools.ts:14-43) as a
\* function of the three files
configure(cfg, fs) ==
  IF cfg.vppAdminTools = None THEN fs
  ELSE LET modConfig == cfg.vppAdminTools[1] IN
       Files(Some(SuperAdminsContent(modConfig)),
             configureCredentials(modConfig, fs.credentials),
             IF modConfig.disablePassword = Some(TRUE)
               THEN updateServerConfig(modConfig, fs.serverDZ) ELSE fs.serverDZ)

\* the names the configurator is registered under (part_001:22-27)
ConfiguratorNames == {"@VPPAdminTools", "@vppAdminTools", "VPPAdminTools"}

\* ModManager.configureMod (part_001:87-96)
configureMod(modName, cfg, fs) ==
  IF modName \in ConfiguratorNames THEN configure(cfg, fs) ELSE fs

\* the loop of ModManager.configureAllMods (part_001:77-79) over mods
RECURSIVE ConfigureMods(_, _, _)
ConfigureMods(mods, cfg, fs) ==
  IF mods = <<>> THEN fs
  ELSE ConfigureMods(Tail(mods), cfg, configureMod(Head(mods).name, cfg, fs))

\* the lines a serverDZ.cfg of the model is made of: another setting, the
\* flag assigned 0, the flag assigned without blanks, the flag assigned a
\* word, and a comment that names the flag
CfgLines ==
  { "maxPlayers = 60;", "vppDisablePassword = 0;", "vppDisablePassword=1;",
    "vppDisablePassword = true;", "// vppDisablePassword" }

\* the texts of at most n lines, each line ended by a newline
RECURSIVE CfgTexts(_)
CfgTexts(n) ==
  IF n = 0 THEN {""}
  ELSE CfgTexts(n - 1) \cup {t \o l \o "\n" : t \in CfgTexts(n - 1), l \in CfgLines}

\* the serverDZ.cfg ServerConfigGenerator.writeConfigs() writes: settings
\* in `key = value;` syntax
GeneratedServerDZ == "maxPlayers = 60;\n"

(* ------------------------------------------------------------------ *)
(* The configuration file                                              *)
(* ------------------------------------------------------------------ *)

NoFile == [kind |-> "absent", doc |-> None]

\* a file YAML.parse throws on
GarbageFile == [kind |-> "garbage", doc |-> None]

DocFile(doc) == [kind |-> "doc", doc |-> Some(doc)]

\* a document that is valid once merged with the defaults
BaseDocument ==
  [ name |-> Some("My Server"), adminPassword |-> Some("secret"),
    maxPlayers |-> Some(60), port |-> Some(2302), mods |-> Some(ModList(1)),
    steam |-> None, vppAdminTools |-> None ]

\* the documents the pipeline runs on: BaseDocument with one field changed
PipelineDocuments ==
  {[BaseDocument EXCEPT !.name = v] : v \in NameValues}
  \cup {[BaseDocument EXCEPT !.adminPassword = v] : v \in AdminPasswordValues}
  \cup {[BaseDocument EXCEPT !.port = v] : v \in {None, Some(0), Some(65536)}}
  \cup {[BaseDocument EXCEPT !.maxPlayers = v] : v \in {None, Some(0), Some(128)}}
  \cup {[BaseDocument EXCEPT !.mods = v] : v \in ModsValues}

\* entrypoint.ts loadConfig: null when the file is missing or does not
\* parse; otherwise the merge, with the steam key always set
loadConfig(file) ==
  IF file.kind = "doc"
    THEN Some([MergeWithDefaults(file.doc[1]) EXCEPT !.steam = Some(SpreadSteam(file.doc[1].steam))])
    ELSE None

\* loadConfig of the CLI (part_000:17-36): no steam key is added
loadConfigCli(file) ==
  IF file.kind = "doc" THEN Some(MergeWithDefaults(file.doc[1])) ELSE None

\* the configuration createDefaultConfig() is, as a loaded configuration
DefaultLoaded == MergeWithDefaults(createDefaultConfig)

\* YAML.stringify of a configuration, read back as a document: every key
\* of the configuration is present
Stringify(cfg) ==
  [ name          |-> Some(cfg.name),
    adminPassword |-> Some(cfg.adminPassword),
    maxPlayers    |-> Some(cfg.maxPlayers),
    port          |-> Some(cfg.port),
    mods          |-> Some(cfg.mods),
    steam         |-> cfg.steam,
    vppAdminTools |-> cfg.vppAdminTools ]

\* saveConfig (entrypoint.ts:95-99; part_000:87-89): the file it writes
saveConfig(cfg) == DocFile(Stringify(cfg))

\* documents that differ in their steam block only
SteamDocuments == {[BaseDocument EXCEPT !.steam = v] : v \in SteamValues}

\* documents that differ in their mod list only
ModStringDocuments == {[BaseDocument EXCEPT !.mods = Some(l)] : l \in ModLists(MaxMods)}

\* the mod lists that reach the admin-tools configurator: under its usual
\* name, after another mod, and under two of its registered names
VppModLists ==
  { <<ModEntry(2)>>, ModList(2),
    <<ModEntry(2), [ModEntry(2) EXCEPT !.name = "VPPAdminTools"]>> }

\* documents with a vppAdminTools block and a mod list that uses it
VppDocuments ==
  { [BaseDocument EXCEPT !.mods = Some(l), !.vppAdminTools = Some(b)] :
      l \in VppModLists, b \in VppAdminToolsBlocks }

\* the files before the command runs: none, or what an earlier run or the
\* administrator left
InitialFiles ==
  [ superAdmins : {None, Some("76561198000000009\n")},
    credentials : {None, Some("oldpassword\n")},
    serverDZ : {None} \cup {Some(t) : t \in CfgTexts(MaxLines)} ]

\* mod entries that break the two rules validateConfig has for a mod, or
\* neither
RuleModEntries ==
  [workshopId : {"", "1559212036"}, name : {"", "@CF"}, serverSide : {FALSE}]

\* documents that break any number of validateConfig's rules at once: the
\* four server fields right or wrong, and every list of RuleModEntries
RuleDocuments ==
  [ name : {Some(""), Some("My Server")}, adminPassword : {Some(""), Some("secret")},
    maxPlayers : {Some(128), Some(60)}, port : {Some(0), Some(2302)},
    mods : {Some(l) : l \in UNION {[1..n -> RuleModEntries] : n \in 0..MaxMods}},
    steam : {None}, vppAdminTools : {None} ]

\* the documents a command is run on: validate on every document,
\* install-server on every steam block, the commands that generate the
\* startup script on every mod list, and every other command on
\* PipelineDocuments, the sample configuration and one document with a
\* steam block
DocumentsOf(cmd) ==
  CASE cmd = "validate" -> Documents \cup RuleDocuments
    [] cmd = "install-server" -> PipelineDocuments \cup SteamDocuments
    [] cmd \in {"generate-config", "configure"} -> PipelineDocuments \cup ModStringDocuments
    [] cmd = "configure-mods" -> PipelineDocuments \cup VppDocuments
    [] OTHER -> PipelineDocuments \cup {createDefaultConfig, [BaseDocument EXCEPT !.steam = Some(FileSteam)]}

\* environments whose credentials are made of every string of Chars: one
\* credential at a time
EscapeEnvironments ==
  UNION { { [username |-> Some(str), password |-> None, steamGuardCode |-> None],
            [username |-> Some("steamuser"), password |-> Some(str), steamGuardCode |-> None],
            [username |-> Some("steamuser"), password |-> Some("pw"), steamGuardCode |-> Some(str)] }
          : str \in Strings(MaxLen) }

\* the commands that read the credentials
CredentialCommands ==
  {"init", "install", "install-server", "install-mods", "update", "start"}

(* ------------------------------------------------------------------ *)
(* Initial states: one command of one program about to run             *)
(* ------------------------------------------------------------------ *)

EntrypointCommands ==
  { "init", "validate", "install", "install-steamcmd", "install-server",
    "install-mods", "configure", "update", "start" }

CliCommands ==
  { "init", "validate", "install", "install-steamcmd", "install-server",
    "install-mods", "configure-mods", "generate-config", "start" }

Signals == {"SIGTERM", "SIGINT"}

\* what can be at path.join(serverPath, modName) (entrypoint.ts:772):
\* nothing, a directory or a link to some other live directory, a symbolic
\* link whose target is gone, or the directory symbolic link to the
\* workshop content of the mod
DestStates == {"absent", "directory", "dangling", "link"}

\* fs.existsSync follows symbolic links: it is false for a link whose
\* target is gone (entrypoint.ts:776)
existsSync(dest) == dest \in {"directory", "link"}

\* the commands that reach installer.installMod: the ModManager of the
\* entrypoint has no credentials and throws first
LinkCommands == {"install", "install-mods"}

\* one command of one program, a configuration file, a file system and an
\* environment. install-server with everything installed is run on every
\* environment; the other commands that read credentials with and without them.
Init ==
  /\ prog \in {"entrypoint", "cli"}
  /\ command \in (IF prog = "entrypoint" THEN EntrypointCommands ELSE CliCommands)
  /\ cfgFile \in {NoFile, GarbageFile} \cup {DocFile(d) : d \in DocumentsOf(command)}
  /\ fsSteamcmd \in BOOLEAN
  /\ fsServerBinary \in BOOLEAN
  /\ fsStartScript \in BOOLEAN
  /\ env \in IF command = "install-server" /\ fsSteamcmd /\ fsServerBinary /\ fsStartScript
               THEN (IF cfgFile.kind = "doc" /\ cfgFile.doc[1] \in SteamDocuments
                       THEN Environments ELSE {NoEnv, FullEnv})
                    \cup (IF cfgFile = DocFile(BaseDocument) THEN EscapeEnvironments ELSE {})
             ELSE IF command \in CredentialCommands THEN {NoEnv, FullEnv}
             ELSE {NoEnv}
  /\ scriptFound = "unchecked"
  /\ routine = command
  /\ pc = "main"
  /\ alive = TRUE
  /\ exitStatus = 0
  /\ config = None
  /\ errors = <<>>
  /\ serverProcess = FALSE
  /\ child = "none"
  /\ childCode = None
  /\ childSignals = <<>>
  /\ timers = 0
  /\ deadlines = <<>>
  /\ now = 0
  /\ timerFired = FALSE
  /\ pendingSignals = <<>>
  /\ handled = <<>>
  /\ steps = <<>>
  /\ subproc = "none"
  /\ results = <<>>
  /\ modIdx = 0
  /\ managerCreds = FALSE
  /\ keysCopied = {}
  /\ linked = {}
  /\ modDest \in {[i \in 1..MaxMods |-> d] :
                     d \in IF prog = "cli" /\ command \in LinkCommands
                            THEN DestStates ELSE {"absent"}}
  /\ files \in IF /\ command = "configure-mods" /\ cfgFile.kind = "doc"
                  /\ fsSteamcmd /\ fsServerBinary /\ fsStartScript
                 THEN (IF cfgFile.doc[1] \in VppDocuments THEN InitialFiles ELSE {NoFiles})
                 ELSE {NoFiles}
  /\ logins = <<>>
  /\ modParams = None
  /\ configured = <<>>

(* ------------------------------------------------------------------ *)
(* Process exit and control transfer                                   *)
(* ------------------------------------------------------------------ *)

\* process.exit(status), an uncaught error (status 1), or the event loop
\* running empty (status 0)
Exit(status) ==
  /\ alive' = FALSE
  /\ exitStatus' = status
  /\ pc' = "exited"

Goto(label) ==
  /\ pc' = label
  /\ UNCHANGED <<alive, exitStatus>>

\* where a command function starts once its configuration is loaded
FirstStep(r) ==
  CASE r \in {"install", "install-steamcmd", "install-server"} -> "steamcmd"
    [] r = "update" -> "server"
    [] r = "install-mods" -> "mods"
    [] r \in {"configure", "generate-config"} -> "generate"
    [] r = "configure-mods" -> "configureMods"
    [] r = "start" -> "scriptCheck"

(* ------------------------------------------------------------------ *)
(* Commands that finish in one piece                                   *)
(* ------------------------------------------------------------------ *)

\* cmdInit (entrypoint.ts:169-182) and the init action (part_000:48-99)
cmdInit ==
  /\ alive /\ pc = "main" /\ command = "init"
  /\ cfgFile' = IF cfgFile.kind = "absent" THEN saveConfig(DefaultLoaded) ELSE cfgFile
  /\ Exit(0)
  /\ UNCHANGED <<runVars, routine, config, errors, fsVars, childVars, sigVars,
                 modVars, stepVars>>

\* cmdValidate (entrypoint.ts:383-406) and the validate action
\* (part_000:105-124): both load, then validate
cmdValidate ==
  /\ alive /\ pc = "main" /\ command = "validate"
  /\ LET cfg == IF prog = "entrypoint" THEN loadConfig(cfgFile) ELSE loadConfigCli(cfgFile) IN
       IF cfg = None
         THEN /\ Exit(1)
              /\ UNCHANGED <<config, errors>>
         ELSE /\ config' = cfg
              /\ errors' = validateConfig(cfg[1])
              /\ Exit(IF errors' # <<>> THEN 1 ELSE 0)
  /\ UNCHANGED <<runVars, routine, cfgFile, fsVars, childVars, sigVars, modVars,
                 stepVars>>

(* ------------------------------------------------------------------ *)
(* Dispatch and configuration loading                                  *)
(* ------------------------------------------------------------------ *)

\* a mutant of Dispatch: start does not look for the server binary
Dispatch_skipInstall ==
  /\ alive /\ pc = "main" /\ command \notin {"init", "validate"}
  /\ routine' = command
  /\ Goto("load")
  /\ UNCHANGED <<runVars, cfgVars, fsVars, childVars, sigVars, modVars, stepVars>>

\* main's switch (entrypoint.ts:528-583) and commander's dispatch; the
\* entrypoint's start runs cmdInstall first when the server binary is
\* missing (entrypoint.ts:413-420)
Dispatch ==
  /\ alive /\ pc = "main" /\ command \notin {"init", "validate"}
  /\ routine' = IF prog = "entrypoint" /\ command = "start" /\ ~fsServerBinary
                  THEN "install" ELSE command
  /\ Goto("load")
  /\ UNCHANGED <<runVars, cfgVars, fsVars, childVars, sigVars, modVars, stepVars>>

\* a mutant of LoadInstallEntrypoint: the environment is merged into the
\* default configuration before it is saved
LoadInstallEntrypoint_saveMerged ==
  /\ alive /\ pc = "load" /\ prog = "entrypoint" /\ routine = "install"
  /\ LET cfg == loadConfig(cfgFile) IN
       IF cfg = None
         THEN /\ cfgFile' = saveConfig(mergeEnvIntoConfig(DefaultLoaded, env))
              /\ Exit(1)
              /\ UNCHANGED <<config, errors>>
         ELSE /\ config' = Some(mergeEnvIntoConfig(cfg[1], env))
              /\ errors' = validateConfig(config'[1])
              /\ IF errors' # <<>> THEN Exit(1) ELSE Goto(FirstStep(routine))
              /\ UNCHANGED cfgFile
  /\ UNCHANGED <<runVars, routine, fsVars, childVars, sigVars, modVars, stepVars>>

\* the head of cmdInstall (entrypoint.ts:188-207): no configuration ->
\* save the default one and return false; otherwise merge the environment
\* into the loaded one; violations -> return false. Both callers turn false
\* into process.exit(1).
LoadInstallEntrypoint ==
  /\ alive /\ pc = "load" /\ prog = "entrypoint" /\ routine = "install"
  /\ LET cfg == loadConfig(cfgFile) IN
       IF cfg = None
         THEN /\ cfgFile' = saveConfig(DefaultLoaded)
              /\ Exit(1)
              /\ UNCHANGED <<config, errors>>
         ELSE /\ config' = Some(mergeEnvIntoConfig(cfg[1], env))
              /\ errors' = validateConfig(config'[1])
              /\ IF errors' # <<>> THEN Exit(1) ELSE Goto(FirstStep(routine))
              /\ UNCHANGED cfgFile
  /\ UNCHANGED <<runVars, routine, fsVars, childVars, sigVars, modVars, stepVars>>

\* the head of the entrypoint's other commands: cmdInstallSteamcmd falls
\* back to the default configuration (entrypoint.ts:264), the others exit
\* with 1 when there is none (entrypoint.ts:287-292, 320-325, 338-343,
\* 360-365, 422-427). cmdInstallServer, cmdInstallMods and cmdUpdate merge
\* the environment into it (entrypoint.ts:294, 327, 367). None of them
\* validates.
LoadEntrypoint ==
  /\ alive /\ pc = "load" /\ prog = "entrypoint" /\ routine # "install"
  /\ LET cfg == loadConfig(cfgFile) IN
       IF cfg = None /\ routine # "install-steamcmd"
         THEN /\ Exit(1)
              /\ UNCHANGED config
         ELSE /\ config' = IF cfg = None THEN Some(DefaultLoaded)
                            ELSE IF routine \in {"install-server", "install-mods", "update"}
                              THEN Some(mergeEnvIntoConfig(cfg[1], env))
                            ELSE cfg
              /\ Goto(FirstStep(routine))
  /\ UNCHANGED <<runVars, routine, cfgFile, errors, fsVars, childVars, sigVars,
                 modVars, stepVars>>

\* loadConfig of the CLI (part_000:17-36): exit 1 when the file is
\* missing, an uncaught parse error otherwise ends the process with 1; no
\* command but validate validates
LoadCli ==
  /\ alive /\ pc = "load" /\ prog = "cli"
  /\ IF cfgFile.kind # "doc"
       THEN /\ Exit(1)
            /\ UNCHANGED config
       ELSE /\ config' = loadConfigCli(cfgFile)
            /\ Goto(FirstStep(routine))
  /\ UNCHANGED <<runVars, routine, cfgFile, errors, fsVars, childVars, sigVars,
                 modVars, stepVars>>

(* ------------------------------------------------------------------ *)
(* Step 1: the installer tool                                          *)
(* ------------------------------------------------------------------ *)

\* isSteamCMDInstalled() is true: cmdInstallSteamcmd returns
\* (entrypoint.ts:267-270, part_000:134-137), cmdInstall and
\* cmdInstallServer go on to the server
SteamCMDPresent ==
  /\ alive /\ pc = "steamcmd" /\ fsSteamcmd
  /\ IF routine = "install-steamcmd" THEN Exit(0) ELSE Goto("server")
  /\ UNCHANGED <<runVars, routine, cfgVars, fsVars, childVars, sigVars, modVars,
                 stepVars>>

\* installSteamCMD() is entered (entrypoint.ts:628-641): execSync blocks
\* the process, so no handler runs until the subprocess has ended
StartInstallSteamCMD ==
  /\ alive /\ pc = "steamcmd" /\ ~fsSteamcmd
  /\ steps' = Append(steps, "installSteamCMD")
  /\ subproc' = "running"
  /\ Goto("execSteamCMD")
  /\ UNCHANGED <<runVars, routine, cfgVars, fsVars, childVars, sigVars, modVars,
                 results, logins>>

\* what the caller of installSteamCMD does with its result: cmdInstall
\* stops on failure (entrypoint.ts:219-222, part_000:243-246),
\* cmdInstallSteamcmd exits 0 or 1 (entrypoint.ts:275-280,
\* part_000:141-146), cmdInstallServer ignores it (entrypoint.ts:299,
\* part_000:162)
AfterSteamCMD(result) ==
  CASE routine = "install" -> IF result.success THEN Goto("server") ELSE Exit(1)
    [] routine = "install-steamcmd" -> Exit(IF result.success THEN 0 ELSE 1)
    [] OTHER -> Goto("server")

\* execSync returns or throws (entrypoint.ts:641-653); a failed install may
\* leave steamcmd.sh behind (the archive extracted, the self-update failed)
FinishInstallSteamCMD(ok, leftBehind) ==
  /\ alive /\ pc = "execSteamCMD"
  /\ subproc' = "exited"
  /\ fsSteamcmd' = (ok \/ leftBehind)
  /\ results' = Append(results, Returned("installSteamCMD", TRUE, None, SteamCMDResult(ok)))
  /\ AfterSteamCMD(SteamCMDResult(ok))
  /\ UNCHANGED <<runVars, routine, cfgVars, fsServerBinary, fsStartScript, childVars,
                 sigVars, modVars, steps, logins>>

(* ------------------------------------------------------------------ *)
(* Step 2: the server                                                  *)
(* ------------------------------------------------------------------ *)

\* the credentials installServer is called with: the steam block of the
\* merged configuration in the entrypoint (entrypoint.ts:229, 303, 372),
\* getSteamCredentials() in the CLI (part_000:155-165, 230-253)
ServerCredentials ==
  IF prog = "entrypoint" THEN config[1].steam[1] ELSE getSteamCredentials(env)

\* a mutant of AfterServer: cmdInstall goes on after a failed server install
AfterServer_goOn(result) ==
  CASE routine = "install-server" -> Exit(IF result.success THEN 0 ELSE 1)
    [] OTHER -> Goto("mods")

\* what the caller of installServer does with its result: cmdInstall stops
\* on failure (entrypoint.ts:231-237, part_000:255-262), cmdInstallServer
\* exits 0 or 1 (entrypoint.ts:305-313, part_000:167-179), cmdUpdate
\* ignores it (entrypoint.ts:372)
AfterServer(result) ==
  CASE routine = "install" -> IF result.success THEN Goto("mods") ELSE Exit(1)
    [] routine = "install-server" -> Exit(IF result.success THEN 0 ELSE 1)
    [] OTHER -> Goto("mods")

\* installServer() without steamcmd.sh (entrypoint.ts:697-699), or with
\* mkdirSync throwing inside its try (entrypoint.ts:702, 734-739): a failure
\* result and no subprocess
InstallServerNoSpawn ==
  /\ alive /\ pc = "server"
  /\ steps' = Append(steps, "installServer")
  /\ results' = Append(results, Returned("installServer", FALSE, None, NotInstalledResult))
  /\ logins' = Append(logins, Invocation("installServer", ServerCredentials, None, 0))
  /\ AfterServer(NotInstalledResult)
  /\ UNCHANGED <<runVars, routine, cfgVars, fsVars, childVars, sigVars, modVars,
                 subproc>>

\* a mutant of StartInstallServer: the caller does not wait for the
\* subprocess
StartInstallServer_noAwait ==
  /\ alive /\ pc = "server" /\ fsSteamcmd
  /\ steps' = Append(steps, "installServer")
  /\ logins' = Append(logins, Invocation("installServer", ServerCredentials,
                                         Some(buildLoginCommand(ServerCredentials)), 0))
  /\ subproc' = "running"
  /\ Goto("mods")
  /\ UNCHANGED <<runVars, routine, cfgVars, fsVars, childVars, sigVars, modVars,
                 results>>

\* installServer() spawns steamcmd and waits for 'close'
\* (entrypoint.ts:704-718)
StartInstallServer ==
  /\ alive /\ pc = "server" /\ fsSteamcmd
  /\ steps' = Append(steps, "installServer")
  /\ logins' = Append(logins, Invocation("installServer", ServerCredentials,
                                         Some(buildLoginCommand(ServerCredentials)), 0))
  /\ subproc' = "running"
  /\ Goto("awaitServer")
  /\ UNCHANGED <<runVars, routine, cfgVars, fsVars, childVars, sigVars, modVars,
                 results>>

\* the 'close' handler of installServer (entrypoint.ts:720-732) and the
\* code of its caller that runs on the resolved promise
ServerInstallClose(code) ==
  /\ alive /\ pc = "awaitServer"
  /\ subproc' = "exited"
  /\ fsServerBinary' = (fsServerBinary \/ code = Some(0))
  /\ results' = Append(results, Returned("installServer", TRUE, code, InstallServerResult(code)))
  /\ AfterServer(InstallServerResult(code))
  /\ UNCHANGED <<runVars, routine, cfgVars, fsSteamcmd, fsStartScript, childVars,
                 sigVars, modVars, steps, logins>>

(* ------------------------------------------------------------------ *)
(* Step 3: the mods (src/unnamed/part_001, ModManager)                 *)
(* ------------------------------------------------------------------ *)

\* the credentials the ModManager is constructed with: none in the
\* entrypoint (entrypoint.ts:241, 328, 374), getSteamCredentials() in the
\* CLI (part_000:188-189, 230-266)
ManagerCredentials ==
  IF prog = "cli" THEN Some(getSteamCredentials(env)) ELSE None

\* the ModManager is constructed and installAllMods() entered
\* (part_001:12-37). The entrypoint constructs it without credentials
\* (entrypoint.ts:241, 328, 374), the CLI with them (part_000:189, 266);
\* without them installAllMods throws, which ends the command with
\* status 1 (entrypoint.ts:584-587).
installAllMods ==
  /\ alive /\ pc = "mods"
  /\ managerCreds' = (ManagerCredentials # None)
  /\ steps' = Append(steps, "installAllMods")
  /\ IF managerCreds'
       THEN /\ modIdx' = 1
            /\ Goto("modLoop")
       ELSE /\ Exit(1)
            /\ UNCHANGED modIdx
  /\ UNCHANGED <<runVars, routine, cfgVars, fsVars, childVars, sigVars, keysCopied,
                 linked, modDest, files, modParams, configured, subproc, results, logins>>

\* the loop of installAllMods is over (part_001:39-44): cmdInstall goes on
\* to the server configuration, install-mods and update are done
ModsDone ==
  /\ alive /\ pc = "modLoop" /\ modIdx > Len(config[1].mods)
  /\ IF routine = "install" THEN Goto("generate") ELSE Exit(0)
  /\ UNCHANGED <<runVars, routine, cfgVars, fsVars, childVars, sigVars, modVars,
                 stepVars>>

\* ModManager.installMod -> installer.installMod without steamcmd.sh
\* (entrypoint.ts:748-750): the failure is logged and the loop goes on
\* (part_001:63-68)
InstallModNoSpawn ==
  /\ alive /\ pc = "modLoop" /\ modIdx <= Len(config[1].mods) /\ ~fsSteamcmd
  /\ steps' = Append(steps, "installMod")
  /\ results' = Append(results, Returned("installMod", FALSE, None, NotInstalledResult))
  /\ logins' = Append(logins, Invocation("installMod", ManagerCredentials[1], None, modIdx))
  /\ modIdx' = modIdx + 1
  /\ Goto("modLoop")
  /\ UNCHANGED <<runVars, routine, cfgVars, fsVars, childVars, sigVars, managerCreds,
                 keysCopied, linked, modDest, files, modParams, configured, subproc>>

\* a mutant of StartInstallMod: the loop goes on to the next mod without
\* waiting for the download to end
StartInstallMod_noAwait ==
  /\ alive /\ pc = "modLoop" /\ modIdx <= Len(config[1].mods) /\ fsSteamcmd
  /\ steps' = Append(steps, "installMod")
  /\ logins' = Append(logins, Invocation("installMod", ManagerCredentials[1],
                                         Some(buildLoginCommand(ManagerCredentials[1])), modIdx))
  /\ subproc' = "running"
  /\ modIdx' = modIdx + 1
  /\ Goto("modLoop")
  /\ UNCHANGED <<runVars, routine, cfgVars, fsVars, childVars, sigVars, managerCreds,
                 keysCopied, linked, modDest, files, modParams, configured, results>>

\* installer.installMod spawns steamcmd and waits for 'close'
\* (entrypoint.ts:752-766)
StartInstallMod ==
  /\ alive /\ pc = "modLoop" /\ modIdx <= Len(config[1].mods) /\ fsSteamcmd
  /\ steps' = Append(steps, "installMod")
  /\ logins' = Append(logins, Invocation("installMod", ManagerCredentials[1],
                                         Some(buildLoginCommand(ManagerCredentials[1])), modIdx))
  /\ subproc' = "running"
  /\ Goto("awaitMod")
  /\ UNCHANGED <<runVars, routine, cfgVars, fsVars, childVars, sigVars, modVars,
                 results>>

\* what the file system does to the 'close' handler of installMod and to
\* copyModKeys after exit code 0: the content directory is linked (what
\* existsSync saw at the location was removed first), or it is
\* missing (no link, still success), or rmSync / symlinkSync throws inside
\* the handler (an uncaught exception: the process ends with status 1 and
\* the promise never resolves), or copyModKeys throws (the error leaves
\* installAllMods and ends the command with status 1)
FsOutcomes == {"linked", "nosource", "linkThrows", "copyThrows"}

\* a mutant of CopiesKeys: the keys are copied whatever the result
CopiesKeys_always(result) == TRUE

\* ModManager.installMod calls copyModKeys when the result is a success
\* (part_001:60-62)
CopiesKeys(result) == result.success

\* the 'close' handler of installMod (entrypoint.ts:768-794) and the rest
\* of ModManager.installMod (part_001:60-68)
ModInstallClose(code, fsOutcome) ==
  /\ alive /\ pc = "awaitMod"
  /\ subproc' = "exited"
  /\ (code = Some(0) /\ fsOutcome \in {"linked", "copyThrows"})
       => modDest[modIdx] # "dangling"
  /\ IF code = Some(0) /\ fsOutcome = "linkThrows"
       THEN /\ Exit(1)
            /\ modDest' \in {modDest} \cup
                             (IF existsSync(modDest[modIdx])
                                THEN {[modDest EXCEPT ![modIdx] = "absent"]} ELSE {})
            /\ UNCHANGED <<results, modIdx, keysCopied, linked>>
       ELSE /\ results' = Append(results, Returned("installMod", TRUE, code, InstallModResult(code)))
            /\ linked' = IF code = Some(0) /\ fsOutcome # "nosource"
                           THEN linked \cup {modIdx} ELSE linked
            /\ modDest' = IF code = Some(0) /\ fsOutcome # "nosource"
                            THEN [modDest EXCEPT ![modIdx] = "link"] ELSE modDest
            /\ IF CopiesKeys(InstallModResult(code)) /\ fsOutcome = "copyThrows"
                 THEN /\ Exit(1)
                      /\ UNCHANGED <<modIdx, keysCopied>>
                 ELSE /\ keysCopied' = IF CopiesKeys(InstallModResult(code))
                                         THEN keysCopied \cup {modIdx} ELSE keysCopied
                      /\ modIdx' = modIdx + 1
                      /\ Goto("modLoop")
  /\ UNCHANGED <<runVars, routine, cfgVars, fsVars, childVars, sigVars, managerCreds,
                 files, modParams, configured, steps, logins>>

(* ------------------------------------------------------------------ *)
(* Steps 4 and 5: server configuration and mod configurators           *)
(* ------------------------------------------------------------------ *)

\* ServerConfigGenerator.writeConfigs(): writes the server configuration
\* (serverDZ.cfg, whatever was there) and the startup script, whose mod
\* arguments are the two strings of getModStartupParams
writeConfigs ==
  /\ alive /\ pc = "generate"
  /\ steps' = Append(steps, "writeConfigs")
  /\ fsStartScript' = TRUE
  /\ modParams' = Some(getModStartupParams(config[1].mods))
  /\ files' = [files EXCEPT !.serverDZ = Some(GeneratedServerDZ)]
  /\ IF routine = "generate-config" THEN Exit(0) ELSE Goto("configureMods")
  /\ UNCHANGED <<runVars, routine, cfgVars, fsSteamcmd, fsServerBinary, childVars,
                 sigVars, modIdx, managerCreds, keysCopied, linked, modDest, configured, subproc,
                 results, logins>>

\* ModManager.configureAllMods() (part_001:74-82) and what follows it:
\* cmdInstall returns true (to main, or to cmdStart which goes on to load
\* the configuration, entrypoint.ts:416-422), cmdConfigure returns (to main,
\* or to cmdStart which goes on to spawn, entrypoint.ts:433-439)
configureAllMods ==
  /\ alive /\ pc = "configureMods"
  /\ steps' = Append(steps, "configureAllMods")
  /\ configured' = configured \o [i \in 1..Len(config[1].mods) |-> config[1].mods[i].name]
  /\ files' = ConfigureMods(config[1].mods, config[1], files)
  /\ IF command = "start"
       THEN /\ routine' = "start"
            /\ Goto(IF routine = "install" THEN "load" ELSE "spawn")
       ELSE /\ Exit(0)
            /\ UNCHANGED routine
  /\ UNCHANGED <<runVars, cfgVars, fsVars, childVars, sigVars, modIdx, managerCreds,
                 keysCopied, linked, modDest, modParams, subproc, results, logins>>

(* ------------------------------------------------------------------ *)
(* Step 6: the process supervisor                                      *)
(* ------------------------------------------------------------------ *)

\* a mutant of ScriptCheck: the CLI does not stop when the script is missing
ScriptCheck_noFailFast ==
  /\ alive /\ pc = "scriptCheck"
  /\ scriptFound' = IF fsStartScript THEN "found" ELSE "missing"
  /\ IF fsStartScript \/ prog = "cli"
       THEN /\ Goto("spawn")
            /\ UNCHANGED routine
       ELSE /\ routine' = "configure"
            /\ Goto("load")
  /\ UNCHANGED <<prog, command, env, cfgVars, fsVars, childVars, sigVars, modVars,
                 stepVars>>

\* the startup script is looked for. The CLI exits with 1 when it is
\* missing (part_000:295-298); the entrypoint reports it and runs
\* cmdConfigure, then goes on to spawn (entrypoint.ts:431-434).
ScriptCheck ==
  /\ alive /\ pc = "scriptCheck"
  /\ scriptFound' = IF fsStartScript THEN "found" ELSE "missing"
  /\ IF fsStartScript
       THEN /\ Goto("spawn")
            /\ UNCHANGED routine
       ELSE IF prog = "cli"
              THEN /\ Exit(1)
                   /\ UNCHANGED routine
              ELSE /\ routine' = "configure"
                   /\ Goto("load")
  /\ UNCHANGED <<prog, command, env, cfgVars, fsVars, childVars, sigVars, modVars,
                 stepVars>>

\* spawn('bash', [startScript]) (entrypoint.ts:439-442, part_000:304-307).
\* Only the entrypoint keeps the child in serverProcess. A failed spawn
\* raises 'error': the entrypoint's handler exits with 1
\* (entrypoint.ts:450-453), in the CLI the unhandled event ends the process.
SpawnServer(ok) ==
  /\ alive /\ pc = "spawn"
  /\ steps' = Append(steps, "spawn")
  /\ IF ok
       THEN /\ child' = "running"
            /\ serverProcess' = (prog = "entrypoint")
            /\ Goto("running")
       ELSE /\ Exit(1)
            /\ UNCHANGED <<child, serverProcess>>
  /\ UNCHANGED <<runVars, routine, cfgVars, fsVars, childCode, childSignals, timers,
                 deadlines, now, timerFired, sigVars, modVars, subproc, results, logins>>

\* a mutant of the entrypoint's 'close' handler: it exits with 0 whatever
\* the child's code
CloseStatus_zero(code) == 0

\* the status the entrypoint's 'close' handler exits with: code || 0
\* (entrypoint.ts:447)
CloseStatus(code) == IF code = None THEN 0 ELSE code[1]

\* the child's 'close' event. The entrypoint's handler clears serverProcess
\* and exits with the child's code (entrypoint.ts:444-448); the CLI's
\* handler only logs (part_000:309-311), after which nothing keeps the
\* process running and it ends with status 0.
ChildClose(code) ==
  /\ alive /\ pc = "running" /\ child = "running"
  /\ child' = "closed"
  /\ childCode' = code
  /\ serverProcess' = FALSE
  /\ Exit(IF prog = "entrypoint" THEN CloseStatus(code) ELSE 0)
  /\ UNCHANGED <<runVars, routine, cfgVars, fsVars, childSignals, timers, deadlines,
                 now, timerFired, sigVars, modVars, stepVars>>

(* ------------------------------------------------------------------ *)
(* Termination signals (entrypoint.ts:496-519, setupSignalHandlers)    *)
(* ------------------------------------------------------------------ *)

\* the points where the process waits in the event loop, so that a signal
\* handler or a timer can run
Waiting == pc \in {"awaitServer", "awaitMod", "running"}

\* SIGTERM or SIGINT is delivered to the entrypoint's process. The CLI
\* installs no handler and is not part of this model of signals.
ReceiveSignal(sig) ==
  /\ alive /\ prog = "entrypoint"
  /\ Len(pendingSignals) + Len(handled) < MaxSignals
  /\ pendingSignals' = Append(pendingSignals, sig)
  /\ UNCHANGED <<runVars, routine, pc, alive, exitStatus, cfgVars, fsVars, childVars,
                 handled, modVars, stepVars>>

\* a mutant of shutdown: the child is killed at once instead of being sent
\* the signal received
shutdown_killNow(signal) ==
  IF serverProcess
    THEN /\ childSignals' = Append(childSignals, "SIGKILL")
         /\ timers' = timers + 1
         /\ deadlines' = Append(deadlines, now + GracePeriod)
         /\ UNCHANGED <<pc, alive, exitStatus>>
    ELSE /\ Exit(0)
         /\ UNCHANGED <<childSignals, timers, deadlines>>

\* a mutant of shutdown: without a server child the signal is ignored
shutdown_ignoreWithoutChild(signal) ==
  IF serverProcess
    THEN /\ childSignals' = Append(childSignals, signal)
         /\ timers' = timers + 1
         /\ deadlines' = Append(deadlines, now + GracePeriod)
         /\ UNCHANGED <<pc, alive, exitStatus>>
    ELSE UNCHANGED <<pc, alive, exitStatus, childSignals, timers, deadlines>>

\* a mutant of shutdown: a signal cancels the timer armed before it and
\* arms a new one
shutdown_rearm(signal) ==
  IF serverProcess
    THEN /\ childSignals' = Append(childSignals, signal)
         /\ timers' = 1
         /\ deadlines' = <<now + GracePeriod>>
         /\ UNCHANGED <<pc, alive, exitStatus>>
    ELSE /\ Exit(0)
         /\ UNCHANGED <<childSignals, timers, deadlines>>

\* shutdown(signal) (entrypoint.ts:497-515): forward the signal and arm a
\* timer of GracePeriod when there is a server child, exit with 0 otherwise
shutdown(signal) ==
  IF serverProcess
    THEN /\ childSignals' = Append(childSignals, signal)
         /\ timers' = timers + 1
         /\ deadlines' = Append(deadlines, now + GracePeriod)
         /\ UNCHANGED <<pc, alive, exitStatus>>
    ELSE /\ Exit(0)
         /\ UNCHANGED <<childSignals, timers, deadlines>>

\* the handler of the oldest pending signal runs
HandleSignal ==
  /\ alive /\ prog = "entrypoint" /\ Waiting /\ pendingSignals # <<>>
  /\ shutdown(Head(pendingSignals))
  /\ pendingSignals' = Tail(pendingSignals)
  /\ handled' = Append(handled, Head(pendingSignals))
  /\ UNCHANGED <<runVars, routine, cfgVars, fsVars, serverProcess, child, childCode,
                 now, timerFired, modVars, stepVars>>

\* the grace timer armed first, which is the first to be due, fires at its
\* time (entrypoint.ts:505-511)
TimerFire ==
  /\ alive /\ Waiting /\ timers > 0
  /\ now = Head(deadlines)
  /\ timers' = timers - 1
  /\ timerFired' = TRUE
  /\ childSignals' = IF serverProcess THEN Append(childSignals, "SIGKILL") ELSE childSignals
  /\ Exit(0)
  /\ UNCHANGED <<runVars, routine, cfgVars, fsVars, serverProcess, child, childCode,
                 deadlines, now, sigVars, modVars, stepVars>>

\* time passes while the supervisor waits on its server child: by one step
\* of the clock, and never past the time of an armed timer, which fires
\* first. Before a timer is armed the clock takes at most MaxTicks steps.
Tick ==
  /\ alive /\ serverProcess /\ pc = "running"
  /\ IF deadlines = <<>>
       THEN /\ now < MaxTicks * ClockStep
            /\ now' = now + ClockStep
       ELSE /\ now < Head(deadlines)
            /\ now' = IF now + ClockStep < Head(deadlines)
                        THEN now + ClockStep ELSE Head(deadlines)
  /\ UNCHANGED <<runVars, routine, pc, alive, exitStatus, cfgVars, fsVars, serverProcess,
                 child, childCode, childSignals, timers, deadlines, timerFired, sigVars,
                 modVars, stepVars>>

\* an installer subprocess that outlives the supervising process ends by
\* itself: nothing in the program signals it
OrphanExit ==
  /\ ~alive /\ subproc = "running"
  /\ subproc' = "exited"
  /\ UNCHANGED <<runVars, routine, pc, alive, exitStatus, cfgVars, fsVars, childVars,
                 sigVars, modVars, steps, results, logins>>

(* ------------------------------------------------------------------ *)
(* Specification                                                       *)
(* ------------------------------------------------------------------ *)

Next ==
  \/ cmdInit
  \/ cmdValidate
  \/ Dispatch
  \/ LoadInstallEntrypoint
  \/ LoadEntrypoint
  \/ LoadCli
  \/ SteamCMDPresent
  \/ StartInstallSteamCMD
  \/ \E ok \in BOOLEAN, leftBehind \in BOOLEAN : FinishInstallSteamCMD(ok, leftBehind)
  \/ InstallServerNoSpawn
  \/ StartInstallServer
  \/ \E code \in ExitCodes : ServerInstallClose(code)
  \/ installAllMods
  \/ ModsDone
  \/ InstallModNoSpawn
  \/ StartInstallMod
  \/ \E code \in ExitCodes, fsOutcome \in FsOutcomes : ModInstallClose(code, fsOutcome)
  \/ writeConfigs
  \/ configureAllMods
  \/ ScriptCheck
  \/ \E ok \in BOOLEAN : SpawnServer(ok)
  \/ \E code \in ExitCodes : ChildClose(code)
  \/ \E sig \in Signals : ReceiveSignal(sig)
  \/ HandleSignal
  \/ TimerFire
  \/ Tick
  \/ OrphanExit

Spec == Init /\ [][Next]_vars

(* ------------------------------------------------------------------ *)
(* Properties                                                          *)
(* ------------------------------------------------------------------ *)

Range(seq) == {seq[i] : i \in 1..Len(seq)}

\* a signal handler runs in this step
HandlerRuns == Len(handled') = Len(handled) + 1

\* C1: while the server child is running, the handler of SIGTERM or SIGINT
\* sends that same signal to the child and arms a grace timer, leaving the
\* supervisor running; a grace timer that fires while the child has not
\* exited sends SIGKILL to the child and ends the supervisor; and the child
\* is never sent SIGKILL unless a grace timer has fired.
C1_ForwardThenGraceThenKill ==
  /\ [][(HandlerRuns /\ child = "running" /\ prog = "entrypoint")
          => /\ Head(pendingSignals) \in Signals
             /\ childSignals' = Append(childSignals, Head(pendingSignals))
             /\ timers' = timers + 1
             /\ alive']_vars
  /\ [][(timerFired' /\ ~timerFired /\ child = "running")
          => /\ childSignals' = Append(childSignals, "SIGKILL")
             /\ ~alive']_vars
  /\ []("SIGKILL" \in Range(childSignals) => timerFired)

\* C1 witness: a signal was forwarded, the timer fired with the child still
\* running, the child was sent SIGKILL and the supervisor has exited
C1_Witness ==
  /\ childSignals = <<"SIGTERM", "SIGKILL">>
  /\ timerFired /\ child = "running" /\ ~alive

\* C2: when the child closes after a termination signal was forwarded to it
\* and before a grace timer fired, the supervisor has exited with the
\* child's exit code (0 when the child has none) and the child was never
\* sent SIGKILL.
C2_ChildExitsWithinGrace ==
  (prog = "entrypoint" /\ child = "closed" /\ childSignals # <<>>)
    => /\ ~alive
       /\ IF childCode = None THEN exitStatus = 0 ELSE exitStatus = childCode[1]
       /\ "SIGKILL" \notin Range(childSignals)
       /\ ~timerFired

\* C2 witness: the child was sent SIGINT, closed with code 1 and the
\* supervisor exited with 1
C2_Witness ==
  /\ child = "closed" /\ childSignals = <<"SIGINT">> /\ childCode = Some(1)
  /\ ~alive /\ exitStatus = 1

\* C3 (as stated): whenever the server child closes with no termination
\* signal involved, the supervising process has exited with the child's
\* exit code, or with 0 when the child has none, whichever program and
\* command started the server.
C3_ExitCodePropagated ==
  (child = "closed" /\ pendingSignals = <<>> /\ handled = <<>>)
    => /\ ~alive
       /\ IF childCode = None THEN exitStatus = 0 ELSE exitStatus = childCode[1]

\* C4 (as stated): the handler of a termination signal that runs while no
\* server child exists leaves the supervising process, and so the pipeline,
\* running.
C4_Original ==
  [][(HandlerRuns /\ child = "none") => alive']_vars

\* C4 (amended): no handler runs while a blocking step executes; a handler
\* that runs while no server child exists ends the supervising process with
\* status 0 and touches neither the step's subprocess nor a timer; once the
\* process has ended no pipeline step starts.
C4_SignalEndsPipeline ==
  /\ [][pc = "execSteamCMD" => ~HandlerRuns]_vars
  /\ [][(HandlerRuns /\ child = "none")
          => /\ ~alive' /\ exitStatus' = 0
             /\ steps' = steps /\ subproc' = subproc
             /\ childSignals' = childSignals /\ timers' = timers]_vars
  /\ [][~alive => (~alive' /\ steps' = steps)]_vars

\* C4 witness: the handler ran while the server install subprocess was
\* running; the supervisor exited with 0 and left the subprocess running
C4_Witness ==
  /\ handled # <<>> /\ child = "none" /\ ~alive /\ exitStatus = 0
  /\ subproc = "running" /\ steps # <<>> /\ steps[Len(steps)] = "installServer"

\* C5 (as stated): a start command that found no startup script never
\* spawns the server child.
C5_Original ==
  scriptFound = "missing" => child = "none"

\* C5 (amended): when the startup script is missing, the CLI's start has
\* exited with status 1 without spawning the child, and the entrypoint's
\* start spawns the child only after writeConfigs and then
\* configureAllMods have run.
C5_MissingScript ==
  scriptFound = "missing"
    => /\ prog = "cli"
            => (~alive /\ exitStatus = 1 /\ child = "none" /\ "spawn" \notin Range(steps))
       /\ (prog = "entrypoint" /\ "spawn" \in Range(steps))
            => \E i, j, k \in 1..Len(steps) :
                 /\ i < j /\ j < k
                 /\ steps[i] = "writeConfigs"
                 /\ steps[j] = "configureAllMods"
                 /\ steps[k] = "spawn"

\* C5 witness: the entrypoint found no script, configured and spawned
C5_Witness ==
  /\ prog = "entrypoint" /\ scriptFound = "missing" /\ child = "running"
  /\ steps = <<"writeConfigs", "configureAllMods", "spawn">>

\* C6: every result installServer or installMod returned for a subprocess
\* that exited with code c has success = true when c = 0; success = false
\* and steamGuardRequired = true when c = 5; and otherwise success = false,
\* steamGuardRequired false and a message carrying c.
C6_ExitCodeMapping ==
  \A i \in 1..Len(results) :
    (results[i].fn \in {"installServer", "installMod"} /\ results[i].spawned)
      => LET c == results[i].code
             r == results[i].result
         IN /\ c = Some(0) => r.success
            /\ c = Some(5) => (~r.success /\ r.steamGuardRequired)
            /\ c \notin {Some(0), Some(5)}
                 => (~r.success /\ ~r.steamGuardRequired /\ r.message.code = c)

\* C6 witness: installServer returned for exit code 0 and installMod
\* returned for exit code 5
C6_Witness ==
  \E i, j \in 1..Len(results) :
    /\ results[i].fn = "installServer" /\ results[i].code = Some(0)
    /\ results[j].fn = "installMod" /\ results[j].code = Some(5)
    /\ results[j].result.steamGuardRequired

\* the steps of the pipeline in the order cmdInstall and cmdStart give them
Rank(step) ==
  CASE step = "installSteamCMD" -> 1
    [] step = "installServer" -> 2
    [] step \in {"installAllMods", "installMod"} -> 3
    [] step = "writeConfigs" -> 4
    [] step = "configureAllMods" -> 5
    [] step = "spawn" -> 6

\* C7: in the full install, once installSteamCMD or installServer has
\* returned a failure, that step is the last one started (no mod download,
\* no key copy, no server config generation, no mod configuration) and the
\* process has exited with a nonzero status.
C7_PrerequisiteFailFast ==
  \A i \in 1..Len(results) :
    (routine = "install" /\ results[i].fn \in {"installSteamCMD", "installServer"}
       /\ ~results[i].result.success)
      => /\ i = Len(results)
         /\ steps[Len(steps)] = results[i].fn
         /\ Range(steps) \subseteq {"installSteamCMD", "installServer"}
         /\ keysCopied = {} /\ linked = {}
         /\ ~alive /\ exitStatus # 0

\* C7 witness: the full install ended with status 1 after installServer
\* failed with exit code 1
C7_Witness ==
  /\ command = "install" /\ ~alive /\ exitStatus = 1
  /\ steps = <<"installSteamCMD", "installServer">>
  /\ results[Len(results)].code = Some(1)

\* C8: the steps of a run start in the pipeline's order (installer, server,
\* mods, server configuration, mod configurators, server child), a running
\* installer subprocess belongs to the step started last, so no step starts
\* before the subprocess of the previous one has ended, and outside the
\* CLI's configure-mods command the mod configurators run only after the
\* server configuration was generated.
C8_StepOrder ==
  /\ \A i, j \in 1..Len(steps) : i < j => Rank(steps[i]) <= Rank(steps[j])
  /\ subproc = "running"
       => (steps # <<>> /\ steps[Len(steps)] \in {"installSteamCMD", "installServer", "installMod"})
  /\ (command # "configure-mods" /\ "configureAllMods" \in Range(steps))
       => "writeConfigs" \in Range(steps)

\* C8 witness: the CLI's full install ran every step through the mod
\* configurators
C8_Witness ==
  /\ command = "install" /\ ~alive /\ exitStatus = 0
  /\ steps = <<"installSteamCMD", "installServer", "installAllMods", "installMod",
               "writeConfigs", "configureAllMods">>

\* C9 (as stated): while the loaded configuration violates a validation
\* rule, no installation step has started.
C9_NoInstallWhenInvalid ==
  (config # None /\ validateConfig(config[1]) # <<>>)
    => /\ Range(steps) \cap {"installSteamCMD", "installServer", "installMod"} = {}
       /\ subproc = "none"

\* the document of the configuration file
Doc == cfgFile.doc[1]

\* the validate command has loaded and validated a document
Validated == command = "validate" /\ ~alive /\ cfgFile.kind = "doc"

\* C10 (as stated): loading and validating a document that omits
\* server.name or server.adminPassword returns a non-empty list.
C10_Original ==
  (Validated /\ (Doc.name = None \/ Doc.adminPassword = None)) => errors # <<>>

\* C10 (amended): loading and validating a document whose server.name or
\* server.adminPassword is empty returns a non-empty list; a field the
\* document omits is loaded with its default, and the list holds no
\* violation for it.
C10_EmptyRequiredField ==
  Validated
    => /\ (Doc.name = Some("") \/ Doc.adminPassword = Some("")) => errors # <<>>
       /\ Doc.name = None
            => /\ config[1].name = "DayZ Server"
               /\ \A e \in Range(errors) : e.rule # "Server name is required"
       /\ Doc.adminPassword = None
            => /\ config[1].adminPassword = "changeme"
               /\ \A e \in Range(errors) : e.rule # "Admin password is required"

\* C10 witness: a document with an empty admin password and nothing else
\* wrong was validated and the list is not empty
C10_Witness ==
  /\ Validated /\ Doc.adminPassword = Some("") /\ Doc.name = None
  /\ Doc.port = Some(2302) /\ Doc.maxPlayers = Some(60)
  /\ Len(errors) = 1 /\ exitStatus = 1

\* what loadConfig of the running program makes of a document
resolve(doc) ==
  IF prog = "entrypoint" THEN loadConfig(DocFile(doc))[1] ELSE loadConfigCli(DocFile(doc))[1]

\* the document has every key loadConfig fills: the four server fields, the
\* mod list and, in the entrypoint, whose loadConfig always sets the steam
\* key, the steam block
FullyPopulated(doc) ==
  /\ \A key \in {"name", "adminPassword", "maxPlayers", "port", "mods"} : doc[key] # None
  /\ prog = "entrypoint" => doc.steam # None

C12_EnvironmentOverrides ==
  \A i \in 1..Len(logins) : \A f \in CredentialFields :
    Truthy(env[f]) => logins[i].credentials[f] = env[f]

\* C12 witness: the file gives all three credentials, the environment the
\* username only; the entrypoint handed installServer the environment's
\* username and the file's password
C12_Witness ==
  /\ prog = "entrypoint" /\ cfgFile.kind = "doc" /\ Doc.steam = Some(FileSteam)
  /\ env.username = Some("envuser") /\ env.password = None
  /\ logins # <<>> /\ logins[1].fn = "installServer"
  /\ logins[1].credentials.username = Some("envuser")
  /\ logins[1].credentials.password = Some("filepass")

\* the file holds a credential value of the environment
EnvCredentialIn(file) ==
  /\ file.kind = "doc" /\ file.doc[1].steam # None
  /\ \E f \in CredentialFields : Truthy(env[f]) /\ file.doc[1].steam[1][f] = env[f]

\* C13: the configuration file never holds a credential value of the
\* environment, and every write of the file writes the default
\* configuration as createDefaultConfig() returns it, into which no
\* environment credential was merged.
C13_CredentialsNotPersisted ==
  /\ [](~EnvCredentialIn(cfgFile))
  /\ [][cfgFile' # cfgFile
          => /\ cfgFile' = saveConfig(DefaultLoaded)
             /\ cfgFile'.doc[1].steam = None]_vars

\* C13 witness: with all three credentials in the environment the
\* entrypoint's install found no configuration and wrote the file
C13_Witness ==
  /\ prog = "entrypoint" /\ command = "install" /\ env = FullEnv
  /\ ~alive /\ exitStatus = 1 /\ config = None
  /\ cfgFile = saveConfig(DefaultLoaded)

\* the results installMod returned, in order: the i-th is that of the
\* i-th mod of the list
ModResults == SelectSeq(results, LAMBDA r : r.fn = "installMod")

\* installAllMods has returned to its caller
BatchReturned ==
  /\ managerCreds /\ "installAllMods" \in Range(steps)
  /\ pc \notin {"mods", "modLoop", "awaitMod"}
  /\ ~(~alive /\ exitStatus = 1)

\* C14: a failed download leaves the process running and moves the loop of
\* installAllMods on to the next mod without copying keys; keys are copied
\* only for mods whose download succeeded; and once installAllMods has
\* returned, every mod of the list was attempted and the keys were copied
\* for exactly the mods whose download succeeded.
C14_PartialFailureTolerated ==
  /\ [][(pc = "modLoop" \/ pc = "awaitMod")
          /\ Len(results') = Len(results) + 1
          /\ ~results'[Len(results')].result.success
          => /\ alive' /\ pc' = "modLoop" /\ modIdx' = modIdx + 1
             /\ keysCopied' = keysCopied]_vars
  /\ [](\A i \in keysCopied : i <= Len(ModResults) /\ ModResults[i].result.success)
  /\ [](BatchReturned
          => /\ Len(ModResults) = Len(config[1].mods)
             /\ keysCopied = {i \in 1..Len(ModResults) : ModResults[i].result.success})

\* C14 witness: of three mods the first and the third were downloaded, the
\* second failed with exit code 1; the keys of the first and the third were
\* copied and install-mods ended with status 0
C14_Witness ==
  /\ command = "install-mods" /\ ~alive /\ exitStatus = 0
  /\ Len(config[1].mods) = 3 /\ Len(ModResults) = 3
  /\ ModResults[1].result.success /\ ModResults[2].code = Some(1)
  /\ ModResults[3].result.success
  /\ keysCopied = {1, 3}

\* C15 (as stated): when installAllMods is entered by a manager without
\* credentials it throws before any download or key copy (the command ends
\* with status 1, installAllMods being its last step), and in every run
\* that enters installAllMods the manager has credentials.
C15_CredentialsPrecondition ==
  "installAllMods" \in Range(steps)
    => /\ ~managerCreds
            => /\ ~alive /\ exitStatus = 1
               /\ steps[Len(steps)] = "installAllMods"
               /\ "installMod" \notin Range(steps) /\ keysCopied = {}
       /\ managerCreds

\* the calls of installMod, in order
ModLogins == SelectSeq(logins, LAMBDA l : l.fn = "installMod")

\* C16: the i-th call of installMod is for the i-th mod of the
\* configuration's list; at most one call has not returned, and then its
\* subprocess is running or the process has ended; every mod before the one
\* being downloaded has its result and, when that is a success, its keys
\* copied; and the names configureAllMods dispatches are those of the list,
\* in the list's order.
C16_ModsInOrderNoOverlap ==
  /\ \A i \in 1..Len(ModLogins) : ModLogins[i].mod = i /\ i <= Len(config[1].mods)
  /\ Len(ModLogins) - Len(ModResults) \in {0, 1}
  /\ Len(ModLogins) > Len(ModResults) => (subproc = "running" \/ ~alive)
  /\ subproc = "running" /\ pc = "awaitMod"
       => /\ Len(ModResults) = Len(ModLogins) - 1
          /\ \A i \in 1..Len(ModResults) : ModResults[i].result.success => i \in keysCopied
  /\ \A j \in 1..Len(configured) :
       configured[j] = config[1].mods[((j - 1) % Len(config[1].mods)) + 1].name

\* C16 witness: the CLI's install downloaded three mods one after the
\* other, copied the keys of each and configured the three in order
C16_Witness ==
  /\ prog = "cli" /\ command = "install" /\ ~alive /\ exitStatus = 0
  /\ Len(ModLogins) = 3 /\ Len(ModResults) = 3 /\ keysCopied = {1, 2, 3}
  /\ configured = <<"@CF", "@VPPAdminTools", "@Mod3">>

\* the full install ran on a valid configuration with an empty mod list,
\* neither the installer tool nor the server failed to install, and no
\* termination signal was handled
EmptyModsInstall ==
  /\ command = "install" /\ config # None /\ handled = <<>>
  /\ validateConfig(config[1]) = <<>> /\ config[1].mods = <<>>
  /\ \A i \in 1..Len(results) : results[i].result.success

\* C17 (as stated): a full install on a valid configuration with an empty
\* mod list, whose installer and server installs succeed, does not end
\* before the server configuration was generated and the mod configurators
\* ran, and starts no mod download.
C17_EmptyModsPipeline ==
  EmptyModsInstall
    => /\ "installMod" \notin Range(steps)
       /\ ~alive => (/\ exitStatus = 0
                     /\ "writeConfigs" \in Range(steps)
                     /\ "configureAllMods" \in Range(steps))

\* the members of a ';'-joined string: the pieces between the separators,
\* none for the empty string
RECURSIVE SplitFrom(_, _, _)
SplitFrom(str, i, piece) ==
  IF i > Len(str) THEN <<piece>>
  ELSE IF CharAt(str, i) = ";" THEN <<piece>> \o SplitFrom(str, i + 1, "")
  ELSE SplitFrom(str, i + 1, piece \o CharAt(str, i))

Members(str) == IF str = "" THEN <<>> ELSE SplitFrom(str, 1, "")

\* the names of the entries of a list whose serverSide flag is flag, in
\* the list's order
RECURSIVE NamesOf(_, _)
NamesOf(mods, flag) ==
  IF mods = <<>> THEN <<>>
  ELSE (IF Head(mods).serverSide = flag THEN <<Head(mods).name>> ELSE <<>>)
       \o NamesOf(Tail(mods), flag)

\* no name of the list is empty or holds the separator
WellNamed(mods) ==
  \A i \in 1..Len(mods) :
    /\ mods[i].name # ""
    /\ \A k \in 1..Len(mods[i].name) : CharAt(mods[i].name, k) # ";"

\* no two entries of the list have the same name
DistinctNames(mods) ==
  \A i, j \in 1..Len(mods) : mods[i].name = mods[j].name => i = j

\* C18 (as stated): for every mod list, the member counts of the two
\* strings sum to the length of the list and no name is a member of both.
C18_Original ==
  modParams # None
    => LET client == Members(modParams[1].mods)
           server == Members(modParams[1].serverMods)
       IN /\ Len(client) + Len(server) = Len(config[1].mods)
          /\ Range(client) \cap Range(server) = {}

\* C18 (amended): for a mod list whose names are not empty and hold no
\* ';', the members of the first string are the names of the entries that
\* are not serverSide and the members of the second those of the serverSide
\* entries, each in list order, so the counts sum to the length of the list;
\* when in addition no two entries share a name, no name is a member of
\* both strings.
C18_Partition ==
  (modParams # None /\ WellNamed(config[1].mods))
    => LET mods == config[1].mods
           client == Members(modParams[1].mods)
           server == Members(modParams[1].serverMods)
       IN /\ client = NamesOf(mods, FALSE)
          /\ server = NamesOf(mods, TRUE)
          /\ Len(client) + Len(server) = Len(mods)
          /\ DistinctNames(mods) => Range(client) \cap Range(server) = {}

\* C18 witness: the list of the client mod @CF and the server-side mod
\* @VPPAdminTools gave the strings "@CF" and "@VPPAdminTools"
C18_Witness ==
  /\ modParams # None /\ Len(config[1].mods) = 2
  /\ ~config[1].mods[1].serverSide /\ config[1].mods[2].serverSide
  /\ modParams[1] = [mods |-> "@CF", serverMods |-> "@VPPAdminTools"]

\* the result of reading a command line as the POSIX shell does
Parsed(ok, words) == [ok |-> ok, words |-> words]

\* POSIX shell word splitting of str from position i on. quoted: inside
\* single quotes, where every character up to the next single quote stands
\* for itself. Outside them a backslash makes the next character stand for
\* itself, a space ends the word, and a backquote, dollar sign or
\* parenthesis starts an expansion or a subshell, which makes the reading
\* fail, as does an unterminated quote or a trailing backslash. word is the
\* word read so far, open is TRUE once it has begun.
RECURSIVE ShellRead(_, _, _, _, _, _)
ShellRead(str, i, quoted, word, open, words) ==
  IF i > Len(str)
    THEN IF quoted THEN Parsed(FALSE, words)
         ELSE Parsed(TRUE, IF open THEN Append(words, word) ELSE words)
  ELSE LET c == CharAt(str, i) IN
    IF quoted
      THEN IF c = "'" THEN ShellRead(str, i + 1, FALSE, word, TRUE, words)
           ELSE ShellRead(str, i + 1, TRUE, word \o c, TRUE, words)
    ELSE IF c = "'" THEN ShellRead(str, i + 1, TRUE, word, TRUE, words)
    ELSE IF c = "\\"
      THEN IF i = Len(str) THEN Parsed(FALSE, words)
           ELSE ShellRead(str, i + 2, FALSE, word \o CharAt(str, i + 1), TRUE, words)
    ELSE IF c = " "
      THEN ShellRead(str, i + 1, FALSE, "", FALSE, IF open THEN Append(words, word) ELSE words)
    ELSE IF c \in {Backquote, "$", "(", ")"} THEN Parsed(FALSE, words)
    ELSE ShellRead(str, i + 1, FALSE, word \o c, TRUE, words)

ShellWords(str) == ShellRead(str, 1, FALSE, "", FALSE, <<>>)

\* the words the login directive is meant to give: the credentials that
\* are not empty, username first, or anonymous
LoginWords(credentials) ==
  IF ~Truthy(credentials.username) THEN <<"+login", "anonymous">>
  ELSE <<"+login", credentials.username[1]>>
       \o (IF Truthy(credentials.password) THEN <<credentials.password[1]>> ELSE <<>>)
       \o (IF Truthy(credentials.steamGuardCode)
             THEN <<credentials.steamGuardCode[1]>> ELSE <<>>)

\* C19: for every credential string handed to the installer, the shell
\* reads shellEscape of it as exactly one word, the string itself; and it
\* reads every login directive built as +login followed by the credentials
\* themselves, one word each.
C19_ShellEscapeRoundTrip ==
  \A i \in 1..Len(logins) :
    /\ \A f \in CredentialFields :
         logins[i].credentials[f] # None
           => ShellWords(shellEscape(logins[i].credentials[f][1]))
                = Parsed(TRUE, <<logins[i].credentials[f][1]>>)
    /\ logins[i].directive # None
         => ShellWords(logins[i].directive[1]) = Parsed(TRUE, LoginWords(logins[i].credentials))

\* C19 witness: the password is a single quote, a backquote and a dollar
\* sign; the directive built reads back as +login, the username and that
\* password
C19_Witness ==
  /\ logins # <<>> /\ logins[1].directive # None
  /\ logins[1].credentials.password = Some("'" \o Backquote \o "$")
  /\ ShellWords(logins[1].directive[1])
       = Parsed(TRUE, <<"+login", "steamuser", "'" \o Backquote \o "$">>)

\* a validation failure or an installation failure occurred during the
\* command: validateConfig reported an error, or the installer returned a
\* result that is not a success (installer tool, server or a mod)
FailureOccurred ==
  \/ errors # <<>>
  \/ \E i \in 1..Len(results) : ~results[i].result.success

\* C20: a command that has ended by itself (no signal was handled) after a
\* validation failure or an installation failure has ended with a nonzero
\* exit status; exit status zero only when none occurred.
C20_ExitStatusReflectsFailure ==
  (~alive /\ handled = <<>> /\ FailureOccurred) => exitStatus # 0

\* C21: whenever installMod has returned success for the i-th mod, the
\* location of that mod in the server directory is the directory symbolic
\* link to the downloaded content, whatever was there before.
C21_LinkedOnSuccess ==
  \A i \in 1..Len(ModResults) :
    ModResults[i].result.success => modDest[i] = "link"

\* C22: every step in which the subprocess of installSteamCMD, installServer
\* or installMod ends hands a result to the caller: the call returns a
\* result value for every exit code and every file system outcome.
C22_ResultOnEveryOutcome ==
  [][(subproc = "running" /\ subproc' = "exited")
       => Len(results') = Len(results) + 1]_vars

\* 1 when the rule is violated, 0 otherwise
Count(violated) == IF violated THEN 1 ELSE 0

\* the number of rules the mods of a list violate: two rules for each mod
RECURSIVE ModRulesViolated(_)
ModRulesViolated(mods) ==
  IF mods = <<>> THEN 0
  ELSE Count(Head(mods).workshopId = "") + Count(Head(mods).name = "")
       + ModRulesViolated(Tail(mods))

\* the number of rules a configuration violates
RulesViolated(cfg) ==
  Count(cfg.name = "") + Count(cfg.adminPassword = "") + Count(cfg.port \notin 1..65535)
  + Count(cfg.maxPlayers \notin 1..127) + ModRulesViolated(cfg.mods)

\* the list has a message of this rule
Reports(rule) == \E e \in Range(errors) : e.rule = rule

\* C23: the list validateConfig returned for a configuration has one
\* message for each rule the configuration violates, whatever else it
\* violates: the four server rules and, for each mod, the workshopId rule
\* and the name rule (each naming the other field of that mod); it is empty
\* exactly when no rule is violated.
C23_AllViolationsCollected ==
  Validated
    => LET cfg == config[1] IN
       /\ Len(errors) = RulesViolated(cfg)
       /\ Reports("Server name is required") <=> cfg.name = ""
       /\ Reports("Admin password is required") <=> cfg.adminPassword = ""
       /\ Reports("Server port must be between 1 and 65535") <=> cfg.port \notin 1..65535
       /\ Reports("Max players must be between 1 and 127") <=> cfg.maxPlayers \notin 1..127
       /\ \A i \in 1..Len(cfg.mods) :
            /\ cfg.mods[i].workshopId = ""
                 => Violation("missing workshopId", cfg.mods[i].name) \in Range(errors)
            /\ cfg.mods[i].name = ""
                 => Violation("missing name", cfg.mods[i].workshopId) \in Range(errors)
       /\ errors = <<>> <=> RulesViolated(cfg) = 0

\* C23 witness: a configuration that violates all four server rules and
\* whose two mods violate one rule and two rules was validated, and the
\* list has the seven messages
C23_Witness ==
  /\ Validated /\ Len(errors) = 7
  /\ config[1].name = "" /\ config[1].adminPassword = ""
  /\ config[1].port = 0 /\ config[1].maxPlayers = 128
  /\ Len(config[1].mods) = 2
  /\ config[1].mods[1] = [workshopId |-> "", name |-> "@CF", serverSide |-> FALSE]
  /\ config[1].mods[2] = [workshopId |-> "", name |-> "", serverSide |-> FALSE]

\* configureAllMods runs in this step and hands a configuration with
\* disablePassword set to the admin-tools configurator
ConfiguresWithDisable ==
  /\ pc = "configureMods" /\ Len(steps') = Len(steps) + 1
  /\ steps'[Len(steps')] = "configureAllMods"
  /\ config[1].vppAdminTools # None
  /\ config[1].vppAdminTools[1].disablePassword = Some(TRUE)
  /\ \E i \in 1..Len(config[1].mods) : config[1].mods[i].name \in ConfiguratorNames

\* C24: when the admin-tools configurator runs with disablePassword set and
\* serverDZ.cfg is present, the file afterwards contains the assignment
\* vppDisablePassword = 1; : the leftmost assignment of the flag to a number
\* is replaced by it where it stands, or, when the file has no such
\* assignment, the comment and the assignment are appended; the rest of the
\* file is as it was.
C24_FlagSetAfterConfigure ==
  [][(ConfiguresWithDisable /\ files.serverDZ # None)
       => /\ files'.serverDZ # None
          /\ Includes(files'.serverDZ[1], "vppDisablePassword = 1;")
          /\ files'.serverDZ[1] =
               IF FirstMatch(files.serverDZ[1], 1) # 0
                 THEN Replace(files.serverDZ[1], "vppDisablePassword = 1;")
                 ELSE files.serverDZ[1]
                      \o "\n// VPP Admin Tools - Disable password requirement\n"
                      \o "vppDisablePassword = 1;\n"]_vars

\* configureAllMods was the last step and it reached the admin-tools
\* configurator: the files are as the configurator left them
Configured ==
  /\ steps # <<>> /\ steps[Len(steps)] = "configureAllMods"
  /\ \E i \in 1..Len(config[1].mods) : config[1].mods[i].name \in ConfiguratorNames

\* C28: once the admin-tools configurator has run, running configure again
\* with the same configuration leaves SuperAdmins.txt, credentials.txt and
\* serverDZ.cfg as they are, whatever the configuration and whatever
\* serverDZ.cfg held before the first run.
C28_ConfigureIdempotent ==
  Configured
    => /\ configure(config[1], files) = files
       /\ ConfigureMods(config[1].mods, config[1], files) = files

\* C28 witness: the configurator ran with disablePassword set on a
\* serverDZ.cfg that did not name the flag; it wrote the two identifiers,
\* an empty credentials file and the appended assignment, and a second
\* run changes none of them
C28_Witness ==
  /\ Configured /\ command = "configure-mods" /\ ~alive
  /\ files.superAdmins = Some("76561198000000000\n76561198000000001\n")
  /\ files.credentials = Some("")
  /\ files.serverDZ = Some("maxPlayers = 60;\n" \o Appended(config[1].vppAdminTools[1]))
  /\ configure(config[1], files) = files

\* C25: every termination signal handled while the server child runs is
\* sent to the child and arms a timer of its own, due one grace period after
\* its handler ran; the timer armed first stays armed for the time it was
\* armed for, whatever signals follow; and the supervisor does not outlive
\* that time: when it comes the timer fires, the child still running is sent
\* SIGKILL and the supervisor exits.
C25_EachSignalOwnTimer ==
  /\ [][(HandlerRuns /\ child = "running" /\ prog = "entrypoint")
          => /\ childSignals' = Append(childSignals, Head(pendingSignals))
             /\ timers' = timers + 1
             /\ deadlines' = Append(deadlines, now + GracePeriod)]_vars
  /\ [][deadlines # <<>>
          => (deadlines' # <<>> /\ Head(deadlines') = Head(deadlines))]_vars
  /\ [][(timerFired' /\ ~timerFired)
          => /\ now = Head(deadlines) /\ ~alive'
             /\ child = "running" => childSignals' = Append(childSignals, "SIGKILL")]_vars
  /\ []((alive /\ deadlines # <<>>) => (now <= Head(deadlines) /\ timers = Len(deadlines)))

\* C25 witness: SIGTERM was handled at time 0 and SIGINT one clock step
\* later; both were sent to the child and two timers were armed; the first
\* fired one grace period after SIGTERM, the child was sent SIGKILL and the
\* supervisor exited
C25_Witness ==
  /\ handled = <<"SIGTERM", "SIGINT">>
  /\ childSignals = <<"SIGTERM", "SIGINT", "SIGKILL">>
  /\ deadlines = <<GracePeriod, ClockStep + GracePeriod>>
  /\ timerFired /\ now = GracePeriod /\ ~alive /\ child = "running"

\* the entrypoint's start command is inside the install pipeline it runs
\* when the server binary is absent: cmdInstall has not returned true
InFirstRunInstall == prog = "entrypoint" /\ command = "start" /\ routine = "install"

\* C26: the entrypoint's start command that finds no server binary enters
\* the install pipeline first; as long as the pipeline has not returned
\* success there is no server child; control leaves the pipeline for the
\* rest of start only after its last step; and a run that ended inside the
\* pipeline without a signal ended with status 1.
C26_InstallBeforeSpawn ==
  /\ [][(pc = "main" /\ pc' # "main" /\ prog = "entrypoint" /\ command = "start"
           /\ ~fsServerBinary)
          => routine' = "install"]_vars
  /\ [](InFirstRunInstall => (child = "none" /\ ~serverProcess))
  /\ [][(InFirstRunInstall /\ routine' # "install")
          => (steps' # <<>> /\ steps'[Len(steps')] = "configureAllMods")]_vars
  /\ []((InFirstRunInstall /\ ~alive /\ handled = <<>>) => exitStatus = 1)

\* C26 witness: start found no server binary, ran the pipeline, the server
\* installation failed with exit code 1, and the process ended with status 1
\* without a child
C26_Witness ==
  /\ InFirstRunInstall /\ ~alive /\ exitStatus = 1 /\ handled = <<>>
  /\ ~fsServerBinary /\ child = "none"
  /\ steps # <<>> /\ steps[Len(steps)] = "installServer"
  /\ results[Len(results)].code = Some(1)

\* C27: no step of any command changes a configuration file that exists,
\* whether it parses or not; the file is written only where there was none.
C27_ExistingFileKept ==
  [][cfgFile.kind # "absent" => cfgFile' = cfgFile]_vars

====
